---- MODULE Spec2Model ----
(***************************************************************************)
(* Graph reasoning and temporal versioning core of AI.me.                  *)
(*                                                                         *)
(*   nxo/core/reasoning_engine.py   ReasoningEngine._expand_subgraph       *)
(*   src/core/versioning/manager.py VersionManager (in-memory histories)   *)
(*   nxo/core/versioning.py         VersionManager (storage-backed)        *)
(*                                                                         *)
(* Nodes are identified by their id (a node dict is the store's snapshot   *)
(* for that id).  Edges are <<source, target>> pairs.  Instants are        *)
(* integer clock ticks; isoformat()/fromisoformat() are modelled on the    *)
(* <<seconds, fraction>> fields they print and parse.                      *)
(***************************************************************************)
EXTENDS Integers, Sequences, FiniteSets, TLC

VARIABLES
    storeEdges,     \* graph store: the edges it holds
    storeAbsent,    \* graph store: ids for which get_node returns None
    storeFault,     \* graph store: the lookup that raises, <<kind, id>>
    expSeeds,       \* _expand_subgraph: seed_nodes of the last call
    expDepth,       \* _expand_subgraph: max_depth of the last call
    expResult,      \* _expand_subgraph: outcome of the last call
    now,            \* the wall clock read by datetime.utcnow()
    versions,       \* src VersionManager.versions: graph_id -> list of version_data
    ret,            \* last VersionManager call: arguments, clock, result
    nxoVersions,    \* nxo storage client: graph_id -> list of version_data
    pc,             \* concurrent create_version: position of each thread
    local,          \* concurrent create_version: locals of each thread
    cmp,            \* last compare_versions call: arguments and result
    vgraph,         \* validate_subgraph: the subgraph given
    vrules,         \* validate_subgraph: the engine's validation_rules
    val,            \* validate_subgraph: what the call returned
    ffilters,       \* _apply_filters: the filters object given
    flt,            \* _apply_filters: the node list given, then each result
    fgraph,         \* filter_subgraph: the graph given
    sfilters,       \* filter_subgraph: the filters given
    sres,           \* filter_subgraph: what the call returned
    searchFault,    \* graph store: the concepts for which search_nodes raises
    qres,           \* get_applicable_subgraph: arguments and outcome of the call
    events,         \* src AuditLogger.events
    llmCalls,       \* the generate calls the text-generation service received
    svc             \* GraphService.query: arguments, steps and outcome of the call

vars == <<storeEdges, storeAbsent, storeFault, expSeeds, expDepth, expResult,
          now, versions, ret, nxoVersions, pc, local, cmp,
          vgraph, vrules, val, ffilters, flt,
          fgraph, sfilters, sres, searchFault, qres,
          events, llmCalls, svc>>

expandVars == <<storeEdges, storeAbsent, storeFault, expSeeds, expDepth, expResult>>
versionVars == <<now, versions, ret>>
nxoVars == <<nxoVersions>>
threadVars == <<pc, local>>
srcFilterVars == <<fgraph, sfilters, sres>>
queryVars == <<searchFault, qres>>
serviceVars == <<events, llmCalls, svc>>
pipelineVars == <<srcFilterVars, queryVars, serviceVars>>
callVars == <<cmp, vgraph, vrules, val, ffilters, flt, pipelineVars>>

(***************************************************************************)
(* Bounds.                                                                 *)
(***************************************************************************)
MaxNodes == 3
MaxSeeds == 2
MaxDepth == 2

NodeIds == 1..MaxNodes

Range(s) == {s[i] : i \in DOMAIN s}

SeqsUpTo(S, n) == UNION {[1..k -> S] : k \in 0..n}

(***************************************************************************)
(* The graph store (graph_db client).  A ring over the node ids, one       *)
(* back edge and one self-loop are the candidate edges; any subset may be  *)
(* stored.  A lookup may raise (storeFault) and get_node may return None   *)
(* for an id some edge still mentions (storeAbsent).                       *)
(***************************************************************************)
EdgeUniverse ==
    {<<i, i + 1>> : i \in 1..(MaxNodes - 1)}
        \cup {<<MaxNodes, 1>>, <<2, 1>>, <<1, 1>>}

NoFault == <<"none", 0>>

Faults ==
    {NoFault} \cup {<<k, n>> : k \in {"get_node_edges", "get_node"}, n \in NodeIds}

EdgeKey(e) == e[1] * (MaxNodes + 1) + e[2]

RECURSIVE EdgeSeq(_)
EdgeSeq(S) ==
    IF S = {} THEN <<>>
    ELSE LET e == CHOOSE x \in S : \A y \in S : EdgeKey(x) <= EdgeKey(y)
         IN  <<e>> \o EdgeSeq(S \ {e})

\* graph_db.get_node_edges(graph_id, id): the edges incident to id
GetNodeEdges(id) == EdgeSeq({e \in storeEdges : e[1] = id \/ e[2] = id})

GetNodeEdgesRaises(id) == storeFault = <<"get_node_edges", id>>

GetNodeRaises(id) == storeFault = <<"get_node", id>>

\* graph_db.get_node(graph_id, id) returned a node (not None)
GetNodeFound(id) == id \notin storeAbsent

(***************************************************************************)
(* ReasoningEngine._expand_subgraph                                        *)
(***************************************************************************)
RECURSIVE Dedup(_)
Dedup(s) ==
    IF s = <<>> THEN <<>>
    ELSE LET r == Dedup(SubSeq(s, 1, Len(s) - 1))
         IN  IF s[Len(s)] \in Range(r) THEN r ELSE Append(r, s[Len(s)])

\* subgraph_nodes = {node["id"]: node for node in seed_nodes}
SeedDict(seeds) == Dedup(seeds)

\* faulty variant: an edge is followed to its target only
ConnectedNodeIdTarget(edge, nodeId) == edge[2]

ConnectedNodeId(edge, nodeId) ==
    IF edge[1] = nodeId THEN edge[2] ELSE edge[1]

\* faulty variant: a found node replaces the nodes collected so far
VisitEdgeKeepLast(st, nodeId, edge) ==
    LET st1 == [st EXCEPT !.edges = Append(@, edge)]
        c   == IF edge[1] = nodeId THEN edge[2] ELSE edge[1]
    IN  IF c \in Range(st1.nodes) THEN st1
        ELSE LET st2 == [st1 EXCEPT !.calls = Append(@, <<"get_node", c>>)]
             IN  IF GetNodeRaises(c) THEN [st2 EXCEPT !.raised = TRUE]
                 ELSE IF GetNodeFound(c)
                      THEN [st2 EXCEPT !.nodes = <<c>>,
                                       !.next = Append(@, c)]
                      ELSE st2

\* body of `for edge in edges`
VisitEdge(st, nodeId, edge) ==
    LET st1 == [st EXCEPT !.edges = Append(@, edge)]
        c   == ConnectedNodeId(edge, nodeId)
    IN  IF c \in Range(st1.nodes) THEN st1
        ELSE LET st2 == [st1 EXCEPT !.calls = Append(@, <<"get_node", c>>)]
             IN  IF GetNodeRaises(c) THEN [st2 EXCEPT !.raised = TRUE]
                 ELSE IF GetNodeFound(c)
                      THEN [st2 EXCEPT !.nodes = Append(@, c),
                                       !.next = Append(@, c)]
                      ELSE st2

RECURSIVE VisitEdges(_, _, _)
VisitEdges(st, nodeId, edges) ==
    IF st.raised \/ edges = <<>> THEN st
    ELSE VisitEdges(VisitEdge(st, nodeId, Head(edges)), nodeId, Tail(edges))

\* body of `for node in current_level`
VisitNode(st, nodeId) ==
    LET st1 == [st EXCEPT !.calls = Append(@, <<"get_node_edges", nodeId>>)]
    IN  IF GetNodeEdgesRaises(nodeId) THEN [st1 EXCEPT !.raised = TRUE]
        ELSE VisitEdges(st1, nodeId, GetNodeEdges(nodeId))

RECURSIVE VisitLevel(_, _)
VisitLevel(st, level) ==
    IF st.raised \/ level = <<>> THEN st
    ELSE VisitLevel(VisitNode(st, Head(level)), Tail(level))

\* faulty variant: the loop runs range(max_depth + 1)
RECURSIVE ExpandLevelsOneMore(_, _, _)
ExpandLevelsOneMore(st, currentLevel, depthLeft) ==
    IF depthLeft < 0 THEN st
    ELSE LET st1 == VisitLevel([st EXCEPT !.next = <<>>,
                                          !.levels = @ + 1], currentLevel)
         IN  IF st1.raised \/ st1.next = <<>> THEN st1
             ELSE ExpandLevelsOneMore(st1, st1.next, depthLeft - 1)

\* faulty variant: no break on an empty next level
RECURSIVE ExpandLevelsNoBreak(_, _, _)
ExpandLevelsNoBreak(st, currentLevel, depthLeft) ==
    IF depthLeft <= 0 THEN st
    ELSE LET st1 == VisitLevel([st EXCEPT !.next = <<>>,
                                          !.levels = @ + 1], currentLevel)
         IN  IF st1.raised THEN st1
             ELSE ExpandLevelsNoBreak(st1, st1.next, depthLeft - 1)

\* `for depth in range(max_depth)`, with the break on an empty next level
RECURSIVE ExpandLevels(_, _, _)
ExpandLevels(st, currentLevel, depthLeft) ==
    IF depthLeft <= 0 THEN st
    ELSE LET st1 == VisitLevel([st EXCEPT !.next = <<>>,
                                          !.levels = @ + 1], currentLevel)
         IN  IF st1.raised \/ st1.next = <<>> THEN st1
             ELSE ExpandLevels(st1, st1.next, depthLeft - 1)

\* The whole call: status "returned" with the subgraph, or "raised" when a
\* store lookup raised (nothing is returned then).
ExpandSubgraph(seeds, maxDepth) ==
    LET st0 == [nodes |-> SeedDict(seeds), edges |-> <<>>, next |-> <<>>,
                calls |-> <<>>, raised |-> FALSE, levels |-> 0]
        st  == ExpandLevels(st0, seeds, maxDepth)
    IN  IF st.raised
        THEN [status |-> "raised", nodes |-> <<>>, edges |-> <<>>,
              calls |-> st.calls, levels |-> st.levels]
        ELSE [status |-> "returned", nodes |-> st.nodes, edges |-> st.edges,
              calls |-> st.calls, levels |-> st.levels]

NotCalled ==
    [status |-> "idle", nodes |-> <<>>, edges |-> <<>>, calls |-> <<>>, levels |-> 0]


(***************************************************************************)
(* _expand_subgraph driven over every store content, seed list and depth.  *)
(***************************************************************************)
SeedLists == SeqsUpTo(NodeIds, MaxSeeds)

InitExpand ==
    /\ storeEdges \in SUBSET EdgeUniverse
    /\ storeAbsent \in {{}} \cup {{n} : n \in NodeIds}
    /\ storeFault \in Faults
    /\ expSeeds = <<>>
    /\ expDepth = 0
    /\ expResult = NotCalled

ExpandCall(seeds, maxDepth) ==
    /\ expResult.status = "idle"
    /\ expSeeds' = seeds
    /\ expDepth' = maxDepth
    /\ expResult' = ExpandSubgraph(seeds, maxDepth)
    /\ UNCHANGED <<storeEdges, storeAbsent, storeFault>>
    /\ UNCHANGED <<versionVars, nxoVars, threadVars, callVars>>

(***************************************************************************)
(* Clock and timestamps.  The clock advances in ticks; TicksPerSecond of   *)
(* them make one second.  isoformat() prints the seconds and, only when it *)
(* is non-zero, the sub-second fraction; fromisoformat() parses both back. *)
(* strftime('%Y%m%d%H%M%S') prints whole seconds only.                     *)
(***************************************************************************)
MaxTime == 2
TicksPerSecond == 2
MaxVersions == 3
MaxExpiring == 2

Times == 0..MaxTime

IsoFormat(t) ==
    IF t % TicksPerSecond = 0
    THEN <<t \div TicksPerSecond>>
    ELSE <<t \div TicksPerSecond, t % TicksPerSecond>>

FromIsoFormat(s) ==
    s[1] * TicksPerSecond + (IF Len(s) > 1 THEN s[2] ELSE 0)

StrfSeconds(t) == ToString(t \div TicksPerSecond)

Tick ==
    /\ now < MaxTime
    /\ now' = now + 1
    /\ UNCHANGED <<versions, ret, expandVars, callVars, nxoVars, threadVars>>

(***************************************************************************)
(* Python values.  None is a value of its own; None and the empty string   *)
(* are falsy.  An Optional[dict] result is <<>> for None, <<d>> for d.     *)
(***************************************************************************)
None == "<None>"
NoTime == -1
NoVersion == <<>>
NoneMeta == [none |-> TRUE]
EmptyMeta == [k \in {} |-> <<>>]

Truthy(s) == s # None /\ s # ""

GraphIds == {"g1", "g2"}

(***************************************************************************)
(* src/core/versioning/manager.py: VersionManager                          *)
(***************************************************************************)
\* self.versions.get(graph_id, [])
ListVersions(g) == IF g \in DOMAIN versions THEN versions[g] ELSE <<>>

TotalVersions(store) ==
    LET RECURSIVE Sum(_)
        Sum(S) == IF S = {} THEN 0
                  ELSE LET g == CHOOSE x \in S : TRUE
                       IN  Len(store[g]) + Sum(S \ {g})
    IN  Sum(DOMAIN store)

\* faulty variant: one counter shared by all graphs
VersionNumberShared(hist) == TotalVersions(versions) + 1

\* version_number = len(self.versions[graph_id]) + 1
VersionNumber(hist) == Len(hist) + 1

\* version_id = f"{graph_id}:v{version_number}"
VersionId(g, n) == g \o ":v" \o ToString(n)

\* datetime.utcnow().isoformat()
CreatedAt(t) == IsoFormat(t)

\* metadata or {}
MetadataOrEmpty(m) == IF m = NoneMeta THEN EmptyMeta ELSE m

\* faulty variant: the new version is stored twice
AppendVersionTwice(hist, data) == Append(Append(hist, data), data)

\* faulty variant: the new version is inserted at the front
PrependVersion(hist, data) == <<data>> \o hist

\* self.versions[graph_id].append(version_data)
AppendVersion(hist, data) == Append(hist, data)

VersionData(g, n, t, m) ==
    [version_id |-> VersionId(g, n),
     version_number |-> n,
     version_type |-> "temporal",
     created_at |-> CreatedAt(t),
     metadata |-> MetadataOrEmpty(m)]

Returned(op, g, vid, ts, result) ==
    [op |-> op, graph_id |-> g, version_id |-> vid, timestamp |-> ts,
     clock |-> now, result |-> result]

CreateVersion(g, m) ==
    /\ TotalVersions(versions) < MaxVersions
    /\ LET hist == ListVersions(g)
           n    == VersionNumber(hist)
       IN  /\ versions' = [h \in DOMAIN versions \cup {g} |->
                              IF h = g
                              THEN AppendVersion(hist, VersionData(g, n, now, m))
                              ELSE versions[h]]
           /\ ret' = Returned("create_version", g, None, NoTime, VersionId(g, n))
    /\ UNCHANGED <<now, expandVars, callVars, nxoVars, threadVars>>

\* `for version in versions: if version["version_id"] == version_id`
RECURSIVE FindVersion(_, _)
FindVersion(hist, vid) ==
    IF hist = <<>> THEN NoVersion
    ELSE IF Head(hist).version_id = vid THEN <<Head(hist)>>
    ELSE FindVersion(Tail(hist), vid)

\* versions[-1] if versions else None
LatestVersion(hist) == IF hist # <<>> THEN <<hist[Len(hist)]>> ELSE NoVersion

GetVersion(g, vid) ==
    IF g \notin DOMAIN versions THEN NoVersion
    ELSE IF Truthy(vid) THEN FindVersion(versions[g], vid)
    ELSE LatestVersion(versions[g])

\* `if expires_at: ... if timestamp > expires_at: return False`
Expired(metadata, t) ==
    /\ "expires_at" \in DOMAIN metadata
    /\ metadata["expires_at"] # <<>>
    /\ t > FromIsoFormat(metadata["expires_at"])

GetTemporalValidity(g, vid, ts) ==
    LET version == GetVersion(g, vid)
        t       == IF ts = NoTime THEN now ELSE ts
    IN  IF version = NoVersion THEN FALSE
        ELSE IF Expired(version[1].metadata, t) THEN FALSE
        ELSE FromIsoFormat(version[1].created_at) <= t

GetVersionCall(g, vid) ==
    /\ ret' = Returned("get_version", g, vid, NoTime, GetVersion(g, vid))
    /\ UNCHANGED <<now, versions, expandVars, callVars, nxoVars, threadVars>>

ListVersionsCall(g) ==
    /\ ret' = Returned("list_versions", g, None, NoTime, ListVersions(g))
    /\ UNCHANGED <<now, versions, expandVars, callVars, nxoVars, threadVars>>

GetTemporalValidityCall(g, vid, ts) ==
    /\ ret' = Returned("get_temporal_validity", g, vid, ts,
                       GetTemporalValidity(g, vid, ts))
    /\ UNCHANGED <<now, versions, expandVars, callVars, nxoVars, threadVars>>

VersionIdStrs ==
    {""} \cup {VersionId(g, n) : g \in GraphIds, n \in 1..MaxVersions}

VersionIdArgs == {None} \cup VersionIdStrs

TimeArgs == Times \cup {NoTime}

PlainMetadata == {NoneMeta, [owner |-> "ann"]}

ExpiryTimes == {t \in Times : 0 < t}

ExpiryMetadata ==
    {NoneMeta} \cup {[expires_at |-> IsoFormat(t)] : t \in ExpiryTimes}

InitVersions ==
    /\ now = 0
    /\ versions = [g \in {} |-> <<>>]
    /\ ret = Returned("none", None, None, NoTime, <<>>)


(***************************************************************************)
(* nxo/core/versioning.py: VersionManager over a storage client.  The      *)
(* storage client is injected; store_version is taken to append the record *)
(* to the history of its graph_id.                                         *)
(***************************************************************************)
Labels == {None, "", "release"}

\* version_label or f"v{datetime.utcnow().strftime('%Y%m%d%H%M%S')}"
NxoVersionId(label, t) == IF Truthy(label) THEN label ELSE "v" \o StrfSeconds(t)

NxoVersionData(g, m, label, t) ==
    [version_id |-> NxoVersionId(label, t),
     graph_id |-> g,
     created_at |-> IsoFormat(t),
     metadata |-> m]

\* self.storage.store_version(version_id, version_data)
StoreVersion(store, data) ==
    [h \in DOMAIN store \cup {data.graph_id} |->
        IF h = data.graph_id
        THEN Append(IF h \in DOMAIN store THEN store[h] ELSE <<>>, data)
        ELSE store[h]]

NxoCreateVersion(g, m, label) ==
    /\ TotalVersions(nxoVersions) < MaxVersions
    /\ nxoVersions' = StoreVersion(nxoVersions, NxoVersionData(g, m, label, now))
    /\ ret' = Returned("nxo_create_version", g, None, NoTime, NxoVersionId(label, now))
    /\ UNCHANGED <<now, versions, expandVars, callVars, threadVars>>

InitNxo == nxoVersions = [g \in {} |-> <<>>]

(***************************************************************************)
(* src VersionManager.create_version called from several threads: the      *)
(* method takes no lock, so threads interleave between its statements.     *)
(***************************************************************************)
Threads == {"t1", "t2"}

NoLocals == [graph_id |-> None, version_number |-> 0]

InitThreads ==
    /\ pc = [t \in Threads |-> "idle"]
    /\ local = [t \in Threads |-> NoLocals]

\* a thread enters create_version(graph_id)
ThreadCall(t, g) ==
    /\ pc[t] = "idle"
    /\ TotalVersions(versions) + Cardinality({u \in Threads : pc[u] # "idle"})
          < MaxVersions
    /\ pc' = [pc EXCEPT ![t] = "check"]
    /\ local' = [local EXCEPT ![t] = [NoLocals EXCEPT !.graph_id = g]]
    /\ UNCHANGED <<versions, now, ret, expandVars, callVars, nxoVars>>

\* `if graph_id not in self.versions:`
ThreadCheck(t) ==
    /\ pc[t] = "check"
    /\ pc' = [pc EXCEPT ![t] =
                 IF local[t].graph_id \notin DOMAIN versions THEN "init" ELSE "read"]
    /\ UNCHANGED <<local, versions, now, ret, expandVars, callVars, nxoVars>>

\* `self.versions[graph_id] = []`
ThreadInit(t) ==
    /\ pc[t] = "init"
    /\ versions' = [h \in DOMAIN versions \cup {local[t].graph_id} |->
                       IF h = local[t].graph_id THEN <<>> ELSE versions[h]]
    /\ pc' = [pc EXCEPT ![t] = "read"]
    /\ UNCHANGED <<local, now, ret, expandVars, callVars, nxoVars>>

\* `version_number = len(self.versions[graph_id]) + 1`
ThreadRead(t) ==
    /\ pc[t] = "read"
    /\ local' = [local EXCEPT ![t].version_number =
                     VersionNumber(versions[local[t].graph_id])]
    /\ pc' = [pc EXCEPT ![t] = "append"]
    /\ UNCHANGED <<versions, now, ret, expandVars, callVars, nxoVars>>

\* version_data is built and appended; the call returns
ThreadAppend(t) ==
    /\ pc[t] = "append"
    /\ LET g == local[t].graph_id
       IN  versions' = [versions EXCEPT ![g] =
               AppendVersion(@, VersionData(g, local[t].version_number, now, NoneMeta))]
    /\ pc' = [pc EXCEPT ![t] = "idle"]
    /\ local' = [local EXCEPT ![t] = NoLocals]
    /\ UNCHANGED <<now, ret, expandVars, callVars, nxoVars>>

(***************************************************************************)
(* compare_versions.  The src manager looks both ids up in one graph and   *)
(* lists the metadata keys that differ; the storage-backed manager answers *)
(* equal ids at once and otherwise looks both ids up in the storage.       *)
(***************************************************************************)
MaxCompared == 2

MetadataKeys == {"owner", "tag"}

\* the metadata given to create_version
DiffMetadata ==
    {[owner |-> "ann"], [owner |-> "bob"], [owner |-> "ann", tag |-> "x"]}

\* set(metadata_1.keys()) | set(metadata_2.keys())
KeyUnion(metadata_1, metadata_2) == DOMAIN metadata_1 \cup DOMAIN metadata_2

\* the orders in which the loop may meet the keys of that set
KeyOrders(keys) == {s \in [1..Cardinality(keys) -> keys] : Range(s) = keys}

\* faulty variant: a key with equal values is reported as changed
DiffEntryEqualChanged(key, metadata_1, metadata_2) ==
    IF key \notin DOMAIN metadata_1 THEN <<"Added metadata key: " \o key>>
    ELSE IF key \notin DOMAIN metadata_2 THEN <<"Removed metadata key: " \o key>>
    ELSE <<"Changed metadata key: " \o key>>

\* faulty variant: a key missing from either side is reported as added
DiffEntryAlwaysAdded(key, metadata_1, metadata_2) ==
    IF key \notin DOMAIN metadata_1 \/ key \notin DOMAIN metadata_2
    THEN <<"Added metadata key: " \o key>>
    ELSE IF metadata_1[key] # metadata_2[key]
    THEN <<"Changed metadata key: " \o key>>
    ELSE <<>>

\* one pass of the loop body of _calculate_differences
DiffEntry(key, metadata_1, metadata_2) ==
    IF key \notin DOMAIN metadata_1 THEN <<"Added metadata key: " \o key>>
    ELSE IF key \notin DOMAIN metadata_2 THEN <<"Removed metadata key: " \o key>>
    ELSE IF metadata_1[key] # metadata_2[key]
    THEN <<"Changed metadata key: " \o key>>
    ELSE <<>>

RECURSIVE DiffLoop(_, _, _)
DiffLoop(order, metadata_1, metadata_2) ==
    IF order = <<>> THEN <<>>
    ELSE DiffEntry(Head(order), metadata_1, metadata_2)
             \o DiffLoop(Tail(order), metadata_1, metadata_2)

CalculateDifferences(version_1, version_2, order) ==
    DiffLoop(order, version_1.metadata, version_2.metadata)

Compared(op, g, vid1, vid2, result) ==
    [op |-> op, graph_id |-> g, version_id_1 |-> vid1, version_id_2 |-> vid2,
     result |-> result]

NoCompare == [op |-> "none"]

InitCompare == cmp = NoCompare

NotFoundResult == [error |-> "One or both versions not found"]

CompareVersions(g, vid1, vid2, order) ==
    LET version_1 == GetVersion(g, vid1)
        version_2 == GetVersion(g, vid2)
    IN  IF version_1 = NoVersion \/ version_2 = NoVersion
        THEN NotFoundResult
        ELSE [version_1 |-> version_1[1],
              version_2 |-> version_2[1],
              differences |->
                  CalculateDifferences(version_1[1], version_2[1], order)]

\* the key orders open to a call: those of the two versions it finds
CallKeyOrders(g, vid1, vid2) ==
    LET version_1 == GetVersion(g, vid1)
        version_2 == GetVersion(g, vid2)
    IN  IF version_1 = NoVersion \/ version_2 = NoVersion
        THEN {<<>>}
        ELSE KeyOrders(KeyUnion(version_1[1].metadata, version_2[1].metadata))

CompareVersionsCall(g, vid1, vid2) ==
    /\ \E order \in CallKeyOrders(g, vid1, vid2) :
           cmp' = Compared("compare_versions", g, vid1, vid2,
                           CompareVersions(g, vid1, vid2, order))
    /\ UNCHANGED <<vgraph, vrules, val, ffilters, flt>>
    /\ UNCHANGED pipelineVars
    /\ UNCHANGED <<versionVars, expandVars, nxoVars, threadVars>>

\* create_version as the compared history of graph "g1" is built
CreateCompared(m) ==
    /\ TotalVersions(versions) < MaxCompared
    /\ CreateVersion("g1", m)

CompareIdArgs == {""} \cup {VersionId("g1", n) : n \in 1..(MaxCompared + 1)}

\* self.storage.get_version(version_id): the record stored under the id
NxoStored ==
    UNION {Range(nxoVersions[g]) : g \in DOMAIN nxoVersions}

NxoGetVersion(vid) ==
    IF \E v \in NxoStored : v.version_id = vid
    THEN <<CHOOSE v \in NxoStored : v.version_id = vid>>
    ELSE NoVersion

NxoComparison(vid1, vid2, identical) ==
    [version_1 |-> vid1, version_2 |-> vid2, identical |-> identical,
     added_nodes |-> <<>>, removed_nodes |-> <<>>, modified_nodes |-> <<>>,
     added_edges |-> <<>>, removed_edges |-> <<>>]

NxoNotFound(vid) == [raised |-> "ValueError",
                     message |-> "Version " \o vid \o " not found"]

\* faulty variant: equal ids are compared like any other pair
NxoCompareNoShortcut(vid1, vid2) ==
    IF NxoGetVersion(vid1) = NoVersion THEN NxoNotFound(vid1)
    ELSE IF NxoGetVersion(vid2) = NoVersion THEN NxoNotFound(vid2)
    ELSE NxoComparison(vid1, vid2, FALSE)

NxoCompareVersions(vid1, vid2) ==
    IF vid1 = vid2 THEN NxoComparison(vid1, vid2, TRUE)
    ELSE IF NxoGetVersion(vid1) = NoVersion THEN NxoNotFound(vid1)
    ELSE IF NxoGetVersion(vid2) = NoVersion THEN NxoNotFound(vid2)
    ELSE NxoComparison(vid1, vid2, FALSE)

NxoCompareVersionsCall(vid1, vid2) ==
    /\ cmp' = Compared("nxo_compare_versions", None, vid1, vid2,
                        NxoCompareVersions(vid1, vid2))
    /\ UNCHANGED <<vgraph, vrules, val, ffilters, flt>>
    /\ UNCHANGED pipelineVars
    /\ UNCHANGED <<versionVars, expandVars, nxoVars, threadVars>>

NxoLabels == {"release", "beta"}

NxoCreateCompared(label) ==
    /\ TotalVersions(nxoVersions) < MaxCompared
    /\ NxoCreateVersion("g1", NoneMeta, label)

NxoIdArgs == NxoLabels \cup {"gone"}

(***************************************************************************)
(* src/core/reasoning/engine.py: ReasoningEngine.validate_subgraph.        *)
(* A subgraph is a MultiDiGraph: node ids with a dict of data each, and    *)
(* edges between its nodes (parallel edges do not change any score).       *)
(* Scores are fractions <<numerator, denominator>>; the float the code     *)
(* returns is the nearest double of the fraction or one rounding step off. *)
(***************************************************************************)
MaxGraphNodes == 3
MaxRules == 2

GraphNodeIds == 1..MaxGraphNodes

\* the data dicts a node may carry
NodeDataChoices ==
    {EmptyMeta,
     [source |-> "s"],
     [verified |-> TRUE],
     [verified |-> FALSE],
     [timestamp |-> "t", verified |-> FALSE],
     [source |-> "s", timestamp |-> "t", verified |-> TRUE]}

GraphEdgeUniverse ==
    {<<i, i + 1>> : i \in 1..(MaxGraphNodes - 1)} \cup {<<2, 1>>, <<1, 1>>}

Subgraphs ==
    {[nodes |-> nd, edges |-> es] :
        nd \in UNION {[ids -> NodeDataChoices] : ids \in SUBSET GraphNodeIds},
        es \in SUBSET GraphEdgeUniverse}

\* an edge of a MultiDiGraph has both its endpoints among the nodes
WellFormedGraph(subgraph) ==
    \A e \in subgraph.edges : e[1] \in DOMAIN subgraph.nodes
                              /\ e[2] \in DOMAIN subgraph.nodes

RuleLists == SeqsUpTo({"completeness"}, MaxRules)

Frac(n, d) == <<n, d>>
FAdd(a, b) == <<a[1] * b[2] + b[1] * a[2], a[2] * b[2]>>
FMul(a, b) == <<a[1] * b[1], a[2] * b[2]>>
FLess(a, b) == a[1] * b[2] < b[1] * a[2]
FEq(a, b) == a[1] * b[2] = b[1] * a[2]
FMin(a, b) == IF FLess(b, a) THEN b ELSE a
FMax(a, b) == IF FLess(a, b) THEN b ELSE a
FZero == Frac(0, 1)
FOne == Frac(1, 1)

\* self.groundedness_threshold = 0.7
GroundednessThreshold == Frac(7, 10)

MetadataWeight == Frac(4, 10)
ConnectivityWeight == Frac(3, 10)
VerificationWeight == Frac(3, 10)

RequiredFields == {"source", "timestamp"}

NodeCount(subgraph) == Cardinality(DOMAIN subgraph.nodes)

\* the sum of score[n] over the nodes n
RECURSIVE SumOver(_, _)
SumOver(ids, score) ==
    IF ids = {} THEN FZero
    ELSE LET n == CHOOSE x \in ids : TRUE
         IN  FAdd(score[n], SumOver(ids \ {n}, score))

\* present_fields / len(required_fields)
PresentFields(node_data) ==
    Frac(Cardinality(RequiredFields \cap DOMAIN node_data),
         Cardinality(RequiredFields))

ScoreMetadataCompleteness(subgraph) ==
    IF NodeCount(subgraph) = 0 THEN FZero
    ELSE FMul(SumOver(DOMAIN subgraph.nodes,
                      [n \in DOMAIN subgraph.nodes |->
                          PresentFields(subgraph.nodes[n])]),
              Frac(1, NodeCount(subgraph)))

\* the nodes joined to some node of S by a path, edge direction ignored
RECURSIVE WeaklyReachable(_, _)
WeaklyReachable(S, subgraph) ==
    LET T == S \cup {e[2] : e \in {x \in subgraph.edges : x[1] \in S}}
               \cup {e[1] : e \in {x \in subgraph.edges : x[2] \in S}}
    IN  IF T = S THEN S ELSE WeaklyReachable(T, subgraph)

WeaklyConnectedComponents(subgraph) ==
    {WeaklyReachable({n}, subgraph) : n \in DOMAIN subgraph.nodes}

IsWeaklyConnected(subgraph) ==
    Cardinality(WeaklyConnectedComponents(subgraph)) = 1

\* faulty variant: the smallest component is taken
SmallestComponentSize(subgraph) ==
    LET sizes == {Cardinality(c) : c \in WeaklyConnectedComponents(subgraph)}
    IN  IF sizes = {} THEN 0 ELSE CHOOSE s \in sizes : \A t \in sizes : s <= t

LargestComponentSize(subgraph) ==
    LET sizes == {Cardinality(c) : c \in WeaklyConnectedComponents(subgraph)}
    IN  IF sizes = {} THEN 0 ELSE CHOOSE s \in sizes : \A t \in sizes : t <= s

ScoreConnectivity(subgraph) ==
    IF NodeCount(subgraph) = 0 THEN FZero
    ELSE IF IsWeaklyConnected(subgraph) THEN FOne
    ELSE Frac(LargestComponentSize(subgraph), NodeCount(subgraph))

\* node_data.get("verified", False)
Verified(node_data) ==
    IF "verified" \in DOMAIN node_data /\ node_data["verified"]
    THEN FOne ELSE FZero

ScoreSourceVerification(subgraph) ==
    IF NodeCount(subgraph) = 0 THEN FZero
    ELSE FMul(SumOver(DOMAIN subgraph.nodes,
                      [n \in DOMAIN subgraph.nodes |->
                          Verified(subgraph.nodes[n])]),
              Frac(1, NodeCount(subgraph)))

\* faulty variant: no clamp, and the weights add up to more than one
WeightedSumHeavy(m, c, v) ==
    FAdd(FAdd(FMul(Frac(6, 10), m), FMul(ConnectivityWeight, c)),
         FMul(VerificationWeight, v))

\* 0.4 * metadata_score + 0.3 * connectivity_score + 0.3 * verification_score
\* and min(1.0, max(0.0, groundedness))
WeightedSum(m, c, v) ==
    FMin(FOne, FMax(FZero,
        FAdd(FAdd(FMul(MetadataWeight, m), FMul(ConnectivityWeight, c)),
             FMul(VerificationWeight, v))))

CalculateGroundedness(subgraph) ==
    IF NodeCount(subgraph) = 0 THEN FZero
    ELSE WeightedSum(ScoreMetadataCompleteness(subgraph),
                     ScoreConnectivity(subgraph),
                     ScoreSourceVerification(subgraph))

\* _apply_validation_rule: no rule type is implemented, every rule passes
ApplyValidationRule(subgraph, rule) == [passed |-> TRUE, issues |-> <<>>]

RECURSIVE ApplyRules(_, _, _)
ApplyRules(results, subgraph, rules) ==
    IF rules = <<>> THEN results
    ELSE LET rule_result == ApplyValidationRule(subgraph, Head(rules))
             next == IF ~rule_result.passed
                     THEN [results EXCEPT !.is_valid = FALSE,
                                          !.issues = @ \o rule_result.issues,
                                          !.rules_applied = @ + 1]
                     ELSE [results EXCEPT !.rules_applied = @ + 1]
         IN  ApplyRules(next, subgraph, Tail(rules))

BelowThresholdIssue == "Groundedness score below threshold"

\* faulty variant: a score equal to the threshold does not pass
GateStrict(is_valid, groundedness) ==
    is_valid /\ FLess(GroundednessThreshold, groundedness)

\* is_valid and groundedness >= self.groundedness_threshold
Gate(is_valid, groundedness) ==
    is_valid /\ ~FLess(groundedness, GroundednessThreshold)

\* faulty variant: no subgraph counts as empty
IsEmptyNever(subgraph) == FALSE

\* len(subgraph.nodes) == 0
IsEmpty(subgraph) == NodeCount(subgraph) = 0

\* the result of validate_subgraph: the returned pair, with the component
\* scores that were computed on the way and the number of rules applied
ValidateSubgraph(subgraph, rules) ==
    LET start == [is_valid |-> TRUE, groundedness_score |-> FZero,
                  issues |-> <<>>, warnings |-> <<>>,
                  scored |-> FALSE,
                  metadata_score |-> FZero, connectivity_score |-> FZero,
                  verification_score |-> FZero, rules_applied |-> 0]
    IN  IF IsEmpty(subgraph)
        THEN [returned |-> FALSE,
              results |-> [start EXCEPT !.is_valid = FALSE,
                                        !.issues = <<"Empty subgraph">>]]
        ELSE LET groundedness == CalculateGroundedness(subgraph)
                 scored == [start EXCEPT
                     !.groundedness_score = groundedness,
                     !.scored = TRUE,
                     !.metadata_score = ScoreMetadataCompleteness(subgraph),
                     !.connectivity_score = ScoreConnectivity(subgraph),
                     !.verification_score = ScoreSourceVerification(subgraph)]
                 gated == IF FLess(groundedness, GroundednessThreshold)
                          THEN [scored EXCEPT !.is_valid = FALSE,
                                              !.issues = <<BelowThresholdIssue>>]
                          ELSE scored
                 ruled == ApplyRules(gated, subgraph, rules)
                 final == [ruled EXCEPT !.is_valid = Gate(@, groundedness)]
             IN  [returned |-> final.is_valid, results |-> final]

NotValidated == [called |-> FALSE]

InitValidateIdle ==
    /\ vgraph = [nodes |-> EmptyMeta, edges |-> {}]
    /\ vrules = <<>>
    /\ val = NotValidated

InitValidate ==
    /\ vgraph \in {g \in Subgraphs : WellFormedGraph(g)}
    /\ vrules \in RuleLists
    /\ val = NotValidated

ValidateCall ==
    /\ ~val.called
    /\ val' = [called |-> TRUE, out |-> ValidateSubgraph(vgraph, vrules)]
    /\ UNCHANGED <<vgraph, vrules, cmp, ffilters, flt>>
    /\ UNCHANGED pipelineVars
    /\ UNCHANGED <<expandVars, versionVars, nxoVars, threadVars>>

(***************************************************************************)
(* nxo/core/reasoning_engine.py: ReasoningEngine._apply_filters.  A node   *)
(* is a dict that may lack "type" and "properties"; a filters object maps  *)
(* filter keys to a cutoff time or to the allowed values.                  *)
(***************************************************************************)
MaxFilterNodes == 2
MaxApplications == 2

\* d.get(key, default)
Get(d, key, default) == IF key \in DOMAIN d THEN d[key] ELSE default

FilterNodeChoices ==
    {[id |-> 1, type |-> "doc", properties |-> [valid_until |-> 1, source |-> "s1"]],
     [id |-> 2, type |-> "entity", properties |-> [valid_until |-> 2, source |-> "s2"]],
     [id |-> 3, type |-> "doc", properties |-> [source |-> "s1"]],
     [id |-> 4, type |-> "doc", properties |-> [valid_until |-> NoTime]],
     [id |-> 5, type |-> "entity"],
     [id |-> 6, properties |-> [valid_until |-> 0, source |-> "s1"]],
     [id |-> 7, type |-> "doc", properties |-> EmptyMeta]}

FilterNodeLists == SeqsUpTo(FilterNodeChoices, MaxFilterNodes)

Cutoffs == {0, 1}

\* the filters objects: any of the three known keys and an unknown one
FilterObjects ==
    {a @@ b @@ c @@ d :
        a \in {EmptyMeta} \cup {[valid_until |-> t] : t \in Cutoffs},
        b \in {EmptyMeta, [node_types |-> {"doc"}], [node_types |-> {}]},
        c \in {EmptyMeta, [sources |-> {"s1"}]},
        d \in {EmptyMeta, [min_score |-> "high"]}}

\* faulty variant: a node whose valid_until equals the cutoff is kept
KeepValidUntilInclusive(n, valid_until) ==
    \/ Get(Get(n, "properties", EmptyMeta), "valid_until", NoTime) = NoTime
    \/ n["properties"]["valid_until"] >= valid_until

\* n.get("properties", {}).get("valid_until") is None
\*     or n["properties"]["valid_until"] > valid_until
KeepValidUntil(n, valid_until) ==
    \/ Get(Get(n, "properties", EmptyMeta), "valid_until", NoTime) = NoTime
    \/ n["properties"]["valid_until"] > valid_until

TemporalFilter(nodes, valid_until) ==
    LET Keep(n) == KeepValidUntil(n, valid_until)
    IN  SelectSeq(nodes, Keep)

\* faulty variant: the first node is dropped whatever its type
TypeFilterDropFirst(nodes, allowed_types) ==
    IF nodes = <<>> THEN <<>> ELSE Tail(nodes)

\* [n for n in filtered_nodes if n.get("type") in allowed_types]
TypeFilter(nodes, allowed_types) ==
    LET Keep(n) == Get(n, "type", None) \in allowed_types
    IN  SelectSeq(nodes, Keep)

\* n.get("properties", {}).get("source") in allowed_sources
SourceFilter(nodes, allowed_sources) ==
    LET Keep(n) ==
            Get(Get(n, "properties", EmptyMeta), "source", None) \in allowed_sources
    IN  SelectSeq(nodes, Keep)

ApplyFilters(nodes, filters) ==
    LET temporal == IF "valid_until" \in DOMAIN filters
                    THEN TemporalFilter(nodes, filters["valid_until"])
                    ELSE nodes
        typed    == IF "node_types" \in DOMAIN filters
                    THEN TypeFilter(temporal, filters["node_types"])
                    ELSE temporal
        sourced  == IF "sources" \in DOMAIN filters
                    THEN SourceFilter(typed, filters["sources"])
                    ELSE typed
    IN  sourced

InitFilterIdle ==
    /\ ffilters = EmptyMeta
    /\ flt = <<>>

\* flt holds the node list given, then the result of each application
InitFilter ==
    /\ ffilters \in FilterObjects
    /\ flt \in {<<nodes>> : nodes \in FilterNodeLists}

\* _apply_filters applied to the list the last application returned
FilterCall ==
    /\ flt # <<>>
    /\ Len(flt) <= MaxApplications
    /\ flt' = Append(flt, ApplyFilters(flt[Len(flt)], ffilters))
    /\ UNCHANGED <<ffilters, cmp, vgraph, vrules, val>>
    /\ UNCHANGED pipelineVars
    /\ UNCHANGED <<expandVars, versionVars, nxoVars, threadVars>>

(***************************************************************************)
(* src/core/reasoning/engine.py: ReasoningEngine.filter_subgraph.  Every   *)
(* key of the filters dict is compared with the node's data.               *)
(***************************************************************************)
SrcNodeDataChoices ==
    {EmptyMeta,
     [type |-> "document"],
     [type |-> "entity"],
     [type |-> "document", min_score |-> "high"]}

SrcGraphs ==
    {[nodes |-> nd, edges |-> es] :
        nd \in UNION {[ids -> SrcNodeDataChoices] : ids \in SUBSET GraphNodeIds},
        es \in SUBSET GraphEdgeUniverse}

\* the filters argument: None, {}, or a dict of keys and values
SrcFilterObjects ==
    {NoneMeta, EmptyMeta,
     [type |-> "document"],
     [min_score |-> "high"],
     [type |-> "document", min_score |-> "high"]}

\* `if filters:`
FiltersGiven(filters) == filters # NoneMeta /\ filters # EmptyMeta

\* for key, value in filters.items(): key missing or value different -> False
NodeMatchesFilters(node_data, filters) ==
    \A key \in DOMAIN filters :
        /\ key \in DOMAIN node_data
        /\ node_data[key] = filters[key]

\* graph.subgraph(nodes_to_keep).copy()
InducedSubgraph(graph, nodes_to_keep) ==
    [nodes |-> [n \in nodes_to_keep |-> graph.nodes[n]],
     edges |-> {e \in graph.edges : e[1] \in nodes_to_keep /\ e[2] \in nodes_to_keep}]

FilterSubgraph(graph, filters) ==
    IF FiltersGiven(filters)
    THEN InducedSubgraph(graph,
             {n \in DOMAIN graph.nodes : NodeMatchesFilters(graph.nodes[n], filters)})
    ELSE graph

NotFiltered == [called |-> FALSE]

InitSrcFilterIdle ==
    /\ fgraph = [nodes |-> EmptyMeta, edges |-> {}]
    /\ sfilters = NoneMeta
    /\ sres = NotFiltered

InitSrcFilter ==
    /\ fgraph \in {g \in SrcGraphs : WellFormedGraph(g)}
    /\ sfilters \in SrcFilterObjects
    /\ sres = NotFiltered

FilterSubgraphCall ==
    /\ ~sres.called
    /\ sres' = [called |-> TRUE, out |-> FilterSubgraph(fgraph, sfilters)]
    /\ UNCHANGED <<fgraph, sfilters, queryVars, serviceVars>>
    /\ UNCHANGED <<expandVars, versionVars, nxoVars, threadVars>>
    /\ UNCHANGED <<cmp, vgraph, vrules, val, ffilters, flt>>


(***************************************************************************)
(* nxo/core/reasoning_engine.py: ReasoningEngine.get_applicable_subgraph.  *)
(* A query is a string, here the sequence of its characters.  The store's  *)
(* search_nodes answers a concept with the nodes indexed under it, or      *)
(* raises when the concept is in searchFault.                              *)
(***************************************************************************)
MaxQueryLen == 3

Chars == {"a", "B", " "}

Queries == SeqsUpTo(Chars, MaxQueryLen)

\* str.lower()
LowerChar(c) == IF c = "B" THEN "b" ELSE c

Lower(s) == [i \in DOMAIN s |-> LowerChar(s[i])]

IsSpace(c) == c = " "

\* str.split(): the maximal runs of non-space characters, in order
RECURSIVE Split(_, _)
Split(s, word) ==
    IF s = <<>> THEN (IF word = <<>> THEN <<>> ELSE <<word>>)
    ELSE IF IsSpace(Head(s))
         THEN (IF word = <<>> THEN <<>> ELSE <<word>>) \o Split(Tail(s), <<>>)
         ELSE Split(Tail(s), Append(word, Head(s)))

\* str.strip()
RECURSIVE Strip(_)
Strip(s) ==
    IF s = <<>> THEN s
    ELSE IF IsSpace(Head(s)) THEN Strip(Tail(s))
    ELSE IF IsSpace(s[Len(s)]) THEN Strip(SubSeq(s, 1, Len(s) - 1))
    ELSE s

NonEmptyStripped(words) ==
    LET Keep(w) == Strip(w) # <<>>
        kept == SelectSeq(words, Keep)
    IN  [i \in DOMAIN kept |-> Strip(kept[i])]

ExtractQueryConcepts(query) ==
    IF query = <<>> \/ Strip(query) = <<>> THEN <<>>
    ELSE NonEmptyStripped(Split(Lower(query), <<>>))

IndexedConcepts == {<<"a">>, <<"b">>}

\* graph_db.search_nodes(graph_id, concept)
SearchNodes(concept) ==
    IF concept = <<"a">>
    THEN <<[id |-> 1, type |-> "doc", properties |-> [valid_until |-> 1, source |-> "s1"]],
           [id |-> 2, type |-> "entity", properties |-> [valid_until |-> 2, source |-> "s2"]]>>
    ELSE IF concept = <<"b">>
    THEN <<[id |-> 2, type |-> "entity", properties |-> [valid_until |-> 2, source |-> "s2"]],
           [id |-> 3, type |-> "doc", properties |-> [source |-> "s1"]]>>
    ELSE <<>>

SearchNodesRaises(concept) == concept \in searchFault

\* `if node_id and node_id not in seen_node_ids`
RECURSIVE AddUnseen(_, _)
AddUnseen(nodes, matching) ==
    IF matching = <<>> THEN nodes
    ELSE LET node == Head(matching)
             seen == {nodes[i].id : i \in DOMAIN nodes}
         IN  AddUnseen(IF node.id # 0 /\ node.id \notin seen
                       THEN Append(nodes, node) ELSE nodes,
                       Tail(matching))

\* `for concept in concepts:` with its try/except ... continue
RECURSIVE FindLoop(_, _)
FindLoop(found, concepts) ==
    IF concepts = <<>> THEN found
    ELSE LET concept == Head(concepts)
         IN  IF concept = <<>> THEN FindLoop(found, Tail(concepts))
             ELSE IF SearchNodesRaises(concept)
             THEN FindLoop([found EXCEPT !.failed = @ \cup {concept}],
                           Tail(concepts))
             ELSE FindLoop(
                      [found EXCEPT !.nodes = AddUnseen(@, SearchNodes(concept))],
                      Tail(concepts))

\* the nodes found, and the concepts whose search raised and was logged
FindRelevantNodes(concepts) ==
    FindLoop([nodes |-> <<>>, failed |-> {}], concepts)

QueryFilterObjects ==
    {NoneMeta, EmptyMeta, [node_types |-> {"doc"}], [node_types |-> {}],
     [valid_until |-> 1]}

NodeIdsOf(nodes) == [i \in DOMAIN nodes |-> nodes[i].id]

\* _validate_subgraph: the dict given, which always has both keys
NxoValidateSubgraph(subgraph) == subgraph

QueryOutcome(status, query, filters, seeds, subgraph, failed) ==
    [status |-> status, query |-> query, filters |-> filters, seeds |-> seeds,
     nodes |-> subgraph.nodes, edges |-> subgraph.edges, search_failed |-> failed]

NoSubgraph == [nodes |-> <<>>, edges |-> <<>>]

\* max_depth=2
QueryDepth == 2

\* faulty variant: an empty seed list is turned into an error
ExpandSeedsRejectEmpty(seeds) ==
    IF seeds = <<>>
    THEN [status |-> "raised", nodes |-> <<>>, edges |-> <<>>,
          calls |-> <<>>, levels |-> 0]
    ELSE ExpandSubgraph(seeds, QueryDepth)

\* self._expand_subgraph(graph_id, relevant_nodes, max_depth=2)
ExpandSeeds(seeds) == ExpandSubgraph(seeds, QueryDepth)

GetApplicableSubgraph(query, filters) ==
    LET query_concepts == ExtractQueryConcepts(query)
        found          == FindRelevantNodes(query_concepts)
        relevant_nodes == IF FiltersGiven(filters)
                          THEN ApplyFilters(found.nodes, filters)
                          ELSE found.nodes
        seeds          == NodeIdsOf(relevant_nodes)
        expanded       == ExpandSeeds(seeds)
    IN  IF expanded.status = "raised"
        THEN QueryOutcome("raised", query, filters, seeds, NoSubgraph, found.failed)
        ELSE QueryOutcome("returned", query, filters, seeds,
                          NxoValidateSubgraph([nodes |-> expanded.nodes,
                                               edges |-> expanded.edges]),
                          found.failed)

NoQuery == QueryOutcome("idle", <<>>, NoneMeta, <<>>, NoSubgraph, {})

InitQueryIdle ==
    /\ searchFault = {}
    /\ qres = NoQuery

\* the stores a query runs against
InitQueryStore ==
    /\ storeEdges \in {{}, {<<1, 2>>, <<2, 3>>}, EdgeUniverse}
    /\ storeAbsent = {}
    /\ storeFault \in {NoFault, <<"get_node_edges", 1>>}
    /\ expSeeds = <<>>
    /\ expDepth = 0
    /\ expResult = NotCalled
    /\ searchFault \in SUBSET IndexedConcepts
    /\ qres = NoQuery

GetApplicableSubgraphCall(query, filters) ==
    /\ qres.status = "idle"
    /\ qres' = GetApplicableSubgraph(query, filters)
    /\ UNCHANGED <<searchFault, srcFilterVars, serviceVars>>
    /\ UNCHANGED <<expandVars, versionVars, nxoVars, threadVars>>
    /\ UNCHANGED <<cmp, vgraph, vrules, val, ffilters, flt>>

(***************************************************************************)
(* src/services/graph_service.py: GraphService.query, over the             *)
(* AuditLogger of src/core/audit/logger.py.  The graph of the processor    *)
(* is fgraph.  svc.steps lists the operations one call performed, in the   *)
(* order it performed them.                                                *)
(***************************************************************************)
Sessions == {"s1", "s2"}

\* a filter value that is no JSON type (a datetime object)
UnserialisableValues == {"<datetime>"}

ServiceNodeData ==
    {[type |-> "entity"],
     [type |-> "document", source |-> "s", timestamp |-> "t", verified |-> TRUE]}

ServiceGraphs ==
    {[nodes |-> nd, edges |-> es] :
        nd \in UNION {[ids -> ServiceNodeData] : ids \in SUBSET GraphNodeIds},
        es \in SUBSET GraphEdgeUniverse}

ServiceFilterObjects ==
    {NoneMeta, EmptyMeta,
     [type |-> "document"],
     [created |-> "<datetime>"]}

\* json.dumps(event) raises TypeError on a value that is no JSON type
JsonSerialisable(details) ==
    \/ "filters" \notin DOMAIN details
    \/ details.filters = NoneMeta
    \/ \A k \in DOMAIN details.filters :
          details.filters[k] \notin UnserialisableValues

\* f"event_{int(timestamp * 1000000)}"
GenerateEventId(t) == <<"event", t>>

AuditEvent(event_type, details, session_id, t) ==
    [event_id |-> GenerateEventId(t),
     event_type |-> event_type,
     timestamp |-> t,
     user_id |-> None,
     session_id |-> session_id,
     details |-> details]

\* faulty variant: the event is put at the head of the log
LogEventFirst(evs, event_type, details, session_id, t) ==
    [events |-> <<AuditEvent(event_type, details, session_id, t)>> \o evs,
     raised |-> ~JsonSerialisable(details),
     event_id |-> GenerateEventId(t)]

\* log_event: the event is appended, then serialised for the standard
\* logger; the serialisation is not guarded
LogEvent(evs, event_type, details, session_id, t) ==
    [events |-> Append(evs, AuditEvent(event_type, details, session_id, t)),
     raised |-> ~JsonSerialisable(details),
     event_id |-> GenerateEventId(t)]

\* list.sort(key=timestamp): a stable sort
RECURSIVE InsertByTimestamp(_, _)
InsertByTimestamp(sorted, e) ==
    IF sorted = <<>> THEN <<e>>
    ELSE IF e.timestamp < Head(sorted).timestamp THEN <<e>> \o sorted
    ELSE <<Head(sorted)>> \o InsertByTimestamp(Tail(sorted), e)

RECURSIVE SortByTimestamp(_)
SortByTimestamp(evs) ==
    IF evs = <<>> THEN <<>>
    ELSE InsertByTimestamp(SortByTimestamp(SubSeq(evs, 1, Len(evs) - 1)),
                           evs[Len(evs)])

GetTrace(evs, session_id) ==
    SortByTimestamp(SelectSeq(evs, LAMBDA e : e.session_id = session_id))

\* the node ids in iteration order
RECURSIVE NodeOrder(_)
NodeOrder(ids) ==
    IF ids = {} THEN <<>>
    ELSE LET n == CHOOSE x \in ids : \A y \in ids : x <= y
         IN  <<n>> \o NodeOrder(ids \ {n})

\* _subgraph_to_context: {"id": str(node), **node_data} for each node and
\* {"source": str(source), "target": str(target)} for each edge
SubgraphToContext(subgraph) ==
    LET order == NodeOrder(DOMAIN subgraph.nodes)
    IN  [nodes |-> [i \in DOMAIN order |->
                       subgraph.nodes[order[i]] @@ [id |-> ToString(order[i])]],
         edges |-> {[source |-> ToString(e[1]), target |-> ToString(e[2])] :
                       e \in subgraph.edges}]

\* llm_service.generate: the reply of the text-generation service
LlmResponse == [text |-> "answer", model |-> "m"]

NoAnswer == [none |-> TRUE]

ServiceOutcome(status, query, filters, session_id, steps, result) ==
    [status |-> status, query |-> query, filters |-> filters,
     session_id |-> session_id, steps |-> steps, result |-> result]

NoServiceCall == ServiceOutcome("idle", "", NoneMeta, None, <<>>, NoAnswer)

\* GraphService.query: what the call leaves in the audit log, the calls it
\* made to the text-generation service, and its outcome
Query(evs, calls, graph, query, filters, session_id, t, llm_raises) ==
    LET q == LogEvent(evs, "llm_query",
                      [query |-> query, graph_id |-> None, filters |-> filters],
                      session_id, t[1])
        subgraph == FilterSubgraph(graph, filters)
        v == ValidateSubgraph(subgraph, <<>>)
        r == LogEvent(q.events, "reasoning_executed",
                      [query_event_id |-> q.event_id,
                       subgraph_size |-> NodeCount(subgraph),
                       validation |-> v.results],
                      session_id, t[2])
        generated == Append(calls, [prompt |-> query,
                                    context |-> SubgraphToContext(subgraph)])
        l == LogEvent(r.events, "llm_response",
                      [query_event_id |-> q.event_id,
                       response_length |-> 6,
                       model |-> LlmResponse.model],
                      session_id, t[3])
        s1 == <<"log_event:llm_query">>
        s2 == s1 \o <<"filter_subgraph", "validate_subgraph",
                      "log_event:reasoning_executed">>
        s3 == Append(s2, "generate")
        s4 == Append(s3, "log_event:llm_response")
        Raised(e, c, steps) ==
            [events |-> e, llmCalls |-> c,
             svc |-> ServiceOutcome("raised", query, filters, session_id,
                                    steps, NoAnswer)]
    IN  IF q.raised THEN Raised(q.events, calls, s1)
        ELSE IF r.raised THEN Raised(r.events, calls, s2)
        ELSE IF llm_raises THEN Raised(r.events, generated, s3)
        ELSE IF l.raised THEN Raised(l.events, generated, s4)
        ELSE [events |-> l.events, llmCalls |-> generated,
              svc |-> ServiceOutcome("returned", query, filters, session_id, s4,
                         [answer |-> LlmResponse.text,
                          model |-> LlmResponse.model,
                          validation |-> v.results,
                          is_valid |-> v.returned,
                          subgraph_size |-> NodeCount(subgraph),
                          query_event_id |-> q.event_id])]

InitServiceIdle ==
    /\ events = <<>>
    /\ llmCalls = <<>>
    /\ svc = NoServiceCall

\* the log is empty or holds the event of an earlier call
InitService ==
    /\ fgraph \in {g \in ServiceGraphs : WellFormedGraph(g)}
    /\ sfilters = NoneMeta
    /\ sres = NotFiltered
    /\ events \in {<<>>,
                   <<AuditEvent("graph_created", [document_id |-> "d"], "s2", 0)>>}
    /\ llmCalls = <<>>
    /\ svc = NoServiceCall

\* the clock may advance between the three log_event calls
QueryCall(filters, session_id, llm_raises) ==
    /\ svc.status = "idle"
    /\ \E d1, d2 \in 0..1 :
          LET out == Query(events, llmCalls, fgraph, "q", filters, session_id,
                           <<now, now + d1, now + d1 + d2>>, llm_raises)
          IN  /\ events' = out.events
              /\ llmCalls' = out.llmCalls
              /\ svc' = out.svc
              /\ now' = now + d1 + d2
    /\ UNCHANGED <<versions, ret, srcFilterVars, queryVars>>
    /\ UNCHANGED <<expandVars, nxoVars, threadVars>>
    /\ UNCHANGED <<cmp, vgraph, vrules, val, ffilters, flt>>

InitPipelineIdle == InitSrcFilterIdle /\ InitQueryIdle /\ InitServiceIdle

(***************************************************************************)
(* Specifications.                                                         *)
(***************************************************************************)
\* no _expand_subgraph call is in play: an empty store, never queried
InitNoExpand ==
    /\ storeEdges = {}
    /\ storeAbsent = {}
    /\ storeFault = NoFault
    /\ expSeeds = <<>>
    /\ expDepth = 0
    /\ expResult = NotCalled

InitCalls ==
    InitCompare /\ InitValidateIdle /\ InitFilterIdle /\ InitPipelineIdle

Init == InitNoExpand /\ InitVersions /\ InitNxo /\ InitThreads /\ InitCalls

\* version histories of the src VersionManager, calls one after another
Next ==
    \/ Tick
    \/ \E g \in GraphIds, m \in PlainMetadata : CreateVersion(g, m)
    \/ \E g \in GraphIds, vid \in VersionIdArgs : GetVersionCall(g, vid)
    \/ \E g \in GraphIds : ListVersionsCall(g)

Spec == Init /\ [][Next]_vars

\* temporal validity of versions that may carry an expiry
NextValidity ==
    \/ Tick
    \/ \E m \in ExpiryMetadata :
           TotalVersions(versions) < MaxExpiring /\ CreateVersion("g1", m)
    \/ \E g \in GraphIds, vid \in VersionIdStrs, ts \in TimeArgs :
           GetTemporalValidityCall(g, vid, ts)

SpecValidity == Init /\ [][NextValidity]_vars

\* every operation of the src manager over the same histories, at one
\* instant of the clock
FrameIdArgs == {"", VersionId("g1", 1), VersionId("g2", 1)}

NextFrame ==
    \/ \E g \in GraphIds, m \in PlainMetadata :
           TotalVersions(versions) < MaxExpiring /\ CreateVersion(g, m)
    \/ \E g \in GraphIds, vid \in FrameIdArgs \cup {None} : GetVersionCall(g, vid)
    \/ \E g \in GraphIds : ListVersionsCall(g)
    \/ \E g \in GraphIds, vid \in FrameIdArgs, ts \in {NoTime, 0} :
           GetTemporalValidityCall(g, vid, ts)
    \/ \E g \in GraphIds, vid1, vid2 \in FrameIdArgs :
           CompareVersionsCall(g, vid1, vid2)

SpecFrame == Init /\ [][NextFrame]_vars

\* create_version of the storage-backed manager
NextNxo ==
    \/ Tick
    \/ \E g \in GraphIds, m \in PlainMetadata, label \in Labels :
           NxoCreateVersion(g, m, label)

SpecNxo == Init /\ [][NextNxo]_vars

\* create_version of the src manager under thread interleaving
NextThreads ==
    \/ \E t \in Threads, g \in GraphIds : ThreadCall(t, g)
    \/ \E t \in Threads : ThreadCheck(t)
    \/ \E t \in Threads : ThreadInit(t)
    \/ \E t \in Threads : ThreadRead(t)
    \/ \E t \in Threads : ThreadAppend(t)

SpecThreads == Init /\ [][NextThreads]_vars

\* _expand_subgraph over every store
InitExpandAll ==
    InitExpand /\ InitVersions /\ InitNxo /\ InitThreads /\ InitCalls

NextExpand ==
    \E seeds \in SeedLists, maxDepth \in 0..MaxDepth : ExpandCall(seeds, maxDepth)

SpecExpand == InitExpandAll /\ [][NextExpand]_vars


\* compare_versions of both managers over the histories they hold
NextCompare ==
    \/ \E m \in DiffMetadata : CreateCompared(m)
    \/ \E g \in GraphIds, vid1, vid2 \in CompareIdArgs :
           CompareVersionsCall(g, vid1, vid2)
    \/ \E label \in NxoLabels : NxoCreateCompared(label)
    \/ \E vid1, vid2 \in NxoIdArgs : NxoCompareVersionsCall(vid1, vid2)

SpecCompare == Init /\ [][NextCompare]_vars


\* validate_subgraph over every subgraph and rule list
InitValidateAll ==
    /\ InitNoExpand /\ InitVersions /\ InitNxo /\ InitThreads /\ InitCompare
    /\ InitValidate /\ InitFilterIdle /\ InitPipelineIdle

NextValidate == ValidateCall

SpecValidate == InitValidateAll /\ [][NextValidate]_vars


\* _apply_filters over every node list and filters object
InitFilterAll ==
    /\ InitNoExpand /\ InitVersions /\ InitNxo /\ InitThreads /\ InitCompare
    /\ InitValidateIdle /\ InitFilter /\ InitPipelineIdle

NextFilter == FilterCall

SpecFilter == InitFilterAll /\ [][NextFilter]_vars


\* filter_subgraph of the src engine over every graph and filters dict
InitSrcFilterAll ==
    /\ InitNoExpand /\ InitVersions /\ InitNxo /\ InitThreads /\ InitCompare
    /\ InitValidateIdle /\ InitFilterIdle /\ InitSrcFilter /\ InitQueryIdle
    /\ InitServiceIdle

NextSrcFilter == FilterSubgraphCall

SpecSrcFilter == InitSrcFilterAll /\ [][NextSrcFilter]_vars


\* get_applicable_subgraph over queries, filters, stores and search faults
InitQueryAll ==
    /\ InitQueryStore /\ InitVersions /\ InitNxo /\ InitThreads /\ InitCompare
    /\ InitValidateIdle /\ InitFilterIdle /\ InitSrcFilterIdle
    /\ InitServiceIdle

NextQuery ==
    \E query \in Queries, filters \in QueryFilterObjects :
        GetApplicableSubgraphCall(query, filters)

SpecQuery == InitQueryAll /\ [][NextQuery]_vars


\* GraphService.query over every processor graph, filters object and
\* session, with a text-generation service that answers or raises
InitServiceAll ==
    /\ InitNoExpand /\ InitVersions /\ InitNxo /\ InitThreads /\ InitCompare
    /\ InitValidateIdle /\ InitFilterIdle /\ InitQueryIdle /\ InitService

NextService ==
    \E filters \in ServiceFilterObjects, session_id \in Sessions,
       llm_raises \in BOOLEAN :
        QueryCall(filters, session_id, llm_raises)

SpecService == InitServiceAll /\ [][NextService]_vars


(***************************************************************************)
(* Properties.                                                             *)
(***************************************************************************)
IsPrefix(s, t) == Len(s) <= Len(t) /\ SubSeq(t, 1, Len(s)) = s

ExpandReturned == expResult.status = "returned"

ExpandCalled == expResult.status # "idle"

\* C1: with max_depth = 0, for every store content and seed list, expand
\* returns exactly the seed nodes (each id once), no edge, and makes no
\* store call.
C1_DepthZeroReturnsSeeds ==
    (ExpandCalled /\ expDepth = 0) =>
        /\ ExpandReturned
        /\ Range(expResult.nodes) = Range(expSeeds)
        /\ Len(expResult.nodes) = Cardinality(Range(expSeeds))
        /\ expResult.edges = <<>>
        /\ expResult.calls = <<>>

\* a depth-0 call on seeds that have stored edges, in a store that would raise
C1_Witness ==
    /\ ExpandReturned
    /\ expDepth = 0
    /\ Len(expSeeds) = MaxSeeds
    /\ \E e \in storeEdges : e[1] \in Range(expSeeds)
    /\ storeFault # NoFault

\* C2: a failing store lookup never aborts expand: every call returns a
\* subgraph, which holds at least the seeds.
C2_ExpandNeverAborts ==
    ExpandCalled =>
        /\ ExpandReturned
        /\ Range(expSeeds) \subseteq Range(expResult.nodes)

\* C3: in a returned subgraph every edge has both endpoints among the
\* returned nodes.
C3_NoDanglingEdge ==
    ExpandReturned =>
        \A e \in Range(expResult.edges) :
            e[1] \in Range(expResult.nodes) /\ e[2] \in Range(expResult.nodes)

\* C4: the k-th version of every history carries version number k.
C4_VersionNumbersContiguous ==
    \A g \in DOMAIN versions :
        \A k \in 1..Len(versions[g]) : versions[g][k].version_number = k

\* create_version calls interleaved over two graphs
C4_Witness ==
    \E g, h \in DOMAIN versions :
        /\ g # h
        /\ Len(versions[g]) >= 2
        /\ Len(versions[h]) >= 1
        /\ FromIsoFormat(versions[h][1].created_at)
               > FromIsoFormat(versions[g][1].created_at)
        /\ FromIsoFormat(versions[h][1].created_at)
               < FromIsoFormat(versions[g][2].created_at)

\* C5: once the concurrent create_version calls have returned, every
\* history holds the version numbers 1..n, none duplicated or skipped.
C5_ConcurrentNumbersContiguous ==
    (\A t \in Threads : pc[t] = "idle") =>
        \A g \in DOMAIN versions :
            \A k \in 1..Len(versions[g]) : versions[g][k].version_number = k

UniqueIds(hist) ==
    \A i, j \in DOMAIN hist : i # j => hist[i].version_id # hist[j].version_id

\* C6: no two versions recorded for one graph share a version_id, in the
\* histories of either manager.
C6_VersionIdsUnique ==
    /\ \A g \in DOMAIN versions : UniqueIds(versions[g])
    /\ \A g \in DOMAIN nxoVersions : UniqueIds(nxoVersions[g])

\* C7: within one history created_at is strictly increasing.
C7_CreatedAtStrictlyIncreasing ==
    \A g \in DOMAIN versions :
        \A i, j \in DOMAIN versions[g] :
            i < j => FromIsoFormat(versions[g][i].created_at)
                         < FromIsoFormat(versions[g][j].created_at)

History(g) == IF g \in DOMAIN versions THEN versions[g] ELSE <<>>

\* the version get_version is to return: the latest when `latest`, else the
\* first in insertion order whose version_id is vid
Lookup(g, vid, latest) ==
    LET hist == History(g)
        hits == {i \in DOMAIN hist : hist[i].version_id = vid}
    IN  IF latest
        THEN IF hist = <<>> THEN NoVersion ELSE <<hist[Len(hist)]>>
        ELSE IF hits = {} THEN NoVersion
             ELSE <<hist[CHOOSE i \in hits : \A k \in hits : i <= k]>>

\* C8: get_version returns the version with that id, or not-found when the
\* graph or the id does not exist, and the latest version when version_id
\* is omitted.
C8_GetVersionExactOrLatest ==
    ret.op = "get_version" =>
        ret.result = Lookup(ret.graph_id, ret.version_id, ret.version_id = None)

\* What get_version does instead (C8): an empty version_id is answered
\* like an omitted one; every other lookup is as C8 says.
GetVersionEmptyIsLatest ==
    ret.op = "get_version" =>
        ret.result = Lookup(ret.graph_id, ret.version_id,
                            ret.version_id \in {None, ""})

\* get_version found an older version by id in a history of several
GetVersionFoundOlder ==
    /\ ret.op = "get_version"
    /\ Len(History(ret.graph_id)) >= 2
    /\ ret.version_id = History(ret.graph_id)[1].version_id
    /\ ret.result = <<History(ret.graph_id)[1]>>

ValidAt(version, t) ==
    /\ FromIsoFormat(version.created_at) <= t
    /\ "expires_at" \in DOMAIN version.metadata =>
           t <= FromIsoFormat(version.metadata["expires_at"])

\* atTime of the recorded call: the clock at the call when none was passed
AtTime(call) == IF call.timestamp = NoTime THEN call.clock ELSE call.timestamp

\* C10: get_temporal_validity is false when no version has that id, else
\* true exactly when created_at <= atTime and atTime <= expires_at (if set).
C10_ValidityAsStated ==
    ret.op = "get_temporal_validity" =>
        LET v == Lookup(ret.graph_id, ret.version_id, FALSE)
        IN  ret.result = (v # NoVersion /\ ValidAt(v[1], AtTime(ret)))

\* What get_temporal_validity does instead (C10): the same rule, applied to
\* the version get_version hands it, the latest one for an empty id.
ValidityEmptyIsLatest ==
    ret.op = "get_temporal_validity" =>
        LET v == Lookup(ret.graph_id, ret.version_id, ret.version_id = "")
        IN  ret.result = (v # NoVersion /\ ValidAt(v[1], AtTime(ret)))

\* a version created before the query time and expired before it: not valid
ValidityExpiredBeforeQuery ==
    /\ ret.op = "get_temporal_validity"
    /\ ret.version_id # ""
    /\ ret.timestamp # NoTime
    /\ LET v == Lookup(ret.graph_id, ret.version_id, FALSE)
       IN  /\ v # NoVersion
           /\ "expires_at" \in DOMAIN v[1].metadata
           /\ FromIsoFormat(v[1].created_at) < ret.timestamp
           /\ FromIsoFormat(v[1].metadata["expires_at"]) < ret.timestamp
           /\ FromIsoFormat(v[1].created_at)
                  <= FromIsoFormat(v[1].metadata["expires_at"])
    /\ ret.result = FALSE

(***************************************************************************)
(* compare_versions.                                                       *)
(***************************************************************************)
\* version_id occurs in the history of graph g of the src manager
ExistsIn(g, vid) == \E i \in DOMAIN History(g) : History(g)[i].version_id = vid

\* version_id is stored by the storage-backed manager
NxoExists(vid) == \E v \in NxoStored : v.version_id = vid

\* a step that is a compare_versions call of the src manager
SrcCompareStep == cmp' # cmp /\ cmp'.op = "compare_versions"

\* a step that is a compare_versions call of the storage-backed manager
NxoCompareStep == cmp' # cmp /\ cmp'.op = "nxo_compare_versions"

SrcCompared == cmp.op = "compare_versions" /\ "differences" \in DOMAIN cmp.result

AddedKeys(d) == {k \in MetadataKeys : ("Added metadata key: " \o k) \in Range(d)}

RemovedKeys(d) ==
    {k \in MetadataKeys : ("Removed metadata key: " \o k) \in Range(d)}

ChangedKeys(d) ==
    {k \in MetadataKeys : ("Changed metadata key: " \o k) \in Range(d)}

C12_MissingIdNotFound ==
    [][ /\ ( /\ SrcCompareStep
             /\ cmp'.version_id_1 # cmp'.version_id_2
             /\ \/ ~ExistsIn(cmp'.graph_id, cmp'.version_id_1)
                \/ ~ExistsIn(cmp'.graph_id, cmp'.version_id_2) )
           => /\ "error" \in DOMAIN cmp'.result
              /\ versions' = versions
        /\ ( /\ NxoCompareStep
             /\ cmp'.version_id_1 # cmp'.version_id_2
             /\ \/ ~NxoExists(cmp'.version_id_1)
                \/ ~NxoExists(cmp'.version_id_2) )
           => /\ "raised" \in DOMAIN cmp'.result
              /\ nxoVersions' = nxoVersions
      ]_vars

\* the same with ids a caller can name: the empty string is left aside
C12_MissingNamedIdNotFound ==
    [][ ( /\ SrcCompareStep
          /\ cmp'.version_id_1 # cmp'.version_id_2
          /\ cmp'.version_id_1 # "" /\ cmp'.version_id_2 # ""
          /\ \/ ~ExistsIn(cmp'.graph_id, cmp'.version_id_1)
             \/ ~ExistsIn(cmp'.graph_id, cmp'.version_id_2) )
        => "error" \in DOMAIN cmp'.result /\ versions' = versions
      ]_vars

\* an empty id next to an existing one: a diff came back
C12_EmptyIdCompared ==
    /\ SrcCompared
    /\ cmp.version_id_1 = ""
    /\ cmp.version_id_2 = VersionId("g1", 1)

\* C13: the diff of two versions holds, for each metadata key, one entry
\* when the key differs (added when only the second version has it,
\* removed when only the first has it, changed when both have it with
\* different values), no entry when both hold the same value, and no
\* other entry.
C13_DiffClassifiesKeys ==
    SrcCompared =>
        LET m1 == cmp.result.version_1.metadata
            m2 == cmp.result.version_2.metadata
            d  == cmp.result.differences
            Entry(k) ==
                IF k \notin DOMAIN m1 /\ k \in DOMAIN m2
                THEN <<"Added metadata key: " \o k>>
                ELSE IF k \in DOMAIN m1 /\ k \notin DOMAIN m2
                THEN <<"Removed metadata key: " \o k>>
                ELSE IF k \in DOMAIN m1 /\ k \in DOMAIN m2 /\ m1[k] # m2[k]
                THEN <<"Changed metadata key: " \o k>>
                ELSE <<>>
            Due == UNION {Range(Entry(k)) : k \in MetadataKeys}
        IN  /\ Range(d) = Due
            /\ Len(d) = Cardinality(Due)

\* one key equal on both sides and left out, another only in the second
C13_Witness ==
    /\ SrcCompared
    /\ "owner" \in DOMAIN cmp.result.version_1.metadata
    /\ "owner" \in DOMAIN cmp.result.version_2.metadata
    /\ cmp.result.version_1.metadata["owner"] = cmp.result.version_2.metadata["owner"]
    /\ cmp.result.differences = <<"Added metadata key: tag">>

\* C14: comparing the same two versions the other way round turns added
\* keys into removed keys and removed into added, and reports the same
\* changed keys.
C14_DiffSymmetric ==
    SrcCompared =>
        LET a == cmp.result.version_1
            b == cmp.result.version_2
            d == cmp.result.differences
        IN  \A order \in KeyOrders(KeyUnion(a.metadata, b.metadata)) :
                LET back == CalculateDifferences(b, a, order)
                IN  /\ AddedKeys(d) = RemovedKeys(back)
                    /\ RemovedKeys(d) = AddedKeys(back)
                    /\ ChangedKeys(d) = ChangedKeys(back)

\* a diff with a changed key and a removed key
C14_Witness ==
    /\ SrcCompared
    /\ ChangedKeys(cmp.result.differences) = {"owner"}
    /\ RemovedKeys(cmp.result.differences) = {"tag"}

(***************************************************************************)
(* validate_subgraph.                                                      *)
(***************************************************************************)
Validated == val.called

InUnit(f) == ~FLess(f, FZero) /\ ~FLess(FOne, f)

\* C15: for a subgraph without nodes validate returns is_valid = false,
\* score 0.0 and the single issue "Empty subgraph", having computed no
\* component score and applied no validation rule.
C15_EmptySubgraphInvalid ==
    (Validated /\ DOMAIN vgraph.nodes = {}) =>
        /\ val.out.returned = FALSE
        /\ val.out.results.is_valid = FALSE
        /\ val.out.results.groundedness_score = Frac(0, 1)
        /\ val.out.results.issues = <<"Empty subgraph">>
        /\ val.out.results.scored = FALSE
        /\ val.out.results.rules_applied = 0

\* an empty subgraph validated by an engine that has rules
C15_Witness ==
    /\ Validated
    /\ DOMAIN vgraph.nodes = {}
    /\ Len(vrules) = MaxRules

\* C16: the groundedness score validate returns, and each of the three
\* component scores, is at least 0 and at most 1.
C16_ScoresInUnitInterval ==
    Validated =>
        /\ InUnit(val.out.results.groundedness_score)
        /\ InUnit(val.out.results.metadata_score)
        /\ InUnit(val.out.results.connectivity_score)
        /\ InUnit(val.out.results.verification_score)
        /\ InUnit(ScoreMetadataCompleteness(vgraph))
        /\ InUnit(ScoreConnectivity(vgraph))
        /\ InUnit(ScoreSourceVerification(vgraph))

\* every node complete and verified, all connected: the score reaches 1
C16_Witness ==
    /\ Validated
    /\ Cardinality(DOMAIN vgraph.nodes) = MaxGraphNodes
    /\ FEq(val.out.results.groundedness_score, FOne)
    /\ FEq(val.out.results.metadata_score, FOne)

\* C17: for a subgraph with nodes, is_valid is true exactly when the score
\* is at least the threshold 0.7 and no rule of the engine failed, and the
\* boolean returned first is the is_valid field of the result.
C17_ValidIffScoreAndRules ==
    (Validated /\ DOMAIN vgraph.nodes # {}) =>
        /\ val.out.results.is_valid <=>
              /\ ~FLess(val.out.results.groundedness_score, Frac(7, 10))
              /\ \A i \in DOMAIN vrules :
                     ApplyValidationRule(vgraph, vrules[i]).passed
        /\ val.out.returned = val.out.results.is_valid

\* a score equal to the threshold, under an engine with rules: valid
C17_Witness ==
    /\ Validated
    /\ vrules # <<>>
    /\ FEq(val.out.results.groundedness_score, Frac(7, 10))
    /\ val.out.returned

\* a set of nodes closed under the edges, holding no smaller such set
IsComponent(C, subgraph) ==
    LET Closed(S) == \A e \in subgraph.edges : (e[1] \in S) <=> (e[2] \in S)
    IN  /\ C # {}
        /\ Closed(C)
        /\ \A S \in SUBSET C : (S # {} /\ Closed(S)) => S = C

\* the scenario: n1 verified with source and timestamp, n2 not verified
\* and without fields, one edge n1 -> n2
ScenarioGraph ==
    [nodes |-> (1 :> [source |-> "s", timestamp |-> "t", verified |-> TRUE])
                @@ (2 :> [verified |-> FALSE]),
     edges |-> {<<1, 2>>}]

\* C18: for a subgraph with nodes the score is 0.4 completeness + 0.3
\* connectivity + 0.3 verification, with completeness the mean over the
\* nodes of (fields present among source, timestamp) / 2, connectivity 1
\* when weakly connected and else largest component / node count, and
\* verification the fraction of nodes with verified true; the scenario
\* graph scores 0.65 and is not valid.
C18_ScoreFormula ==
    (Validated /\ DOMAIN vgraph.nodes # {}) =>
        LET ids == DOMAIN vgraph.nodes
            n == Cardinality(ids)
            present == {<<i, f>> \in ids \X {"source", "timestamp"} :
                            f \in DOMAIN vgraph.nodes[i]}
            comps == {C \in SUBSET ids : IsComponent(C, vgraph)}
            largest == CHOOSE s \in {Cardinality(C) : C \in comps} :
                           \A C \in comps : Cardinality(C) <= s
            verified == {i \in ids : "verified" \in DOMAIN vgraph.nodes[i]
                                     /\ vgraph.nodes[i]["verified"] = TRUE}
            \* (4/10)(present/2n) + (3/10)(largest/n) + (3/10)(verified/n)
            numerator == 2 * Cardinality(present)
                         + 3 * (IF Cardinality(comps) = 1 THEN n ELSE largest)
                         + 3 * Cardinality(verified)
        IN  /\ FEq(val.out.results.groundedness_score, Frac(numerator, 10 * n))
            /\ vgraph = ScenarioGraph =>
                  /\ FEq(val.out.results.groundedness_score, Frac(65, 100))
                  /\ val.out.results.is_valid = FALSE
                  /\ val.out.returned = FALSE

\* the scenario graph has been validated
C18_Witness ==
    /\ Validated
    /\ vgraph = ScenarioGraph
    /\ FEq(val.out.results.metadata_score, Frac(1, 2))
    /\ FEq(val.out.results.connectivity_score, FOne)
    /\ FEq(val.out.results.verification_score, Frac(1, 2))

\* a subgraph in two unequal parts has been validated
C18_SplitValidated ==
    /\ Validated
    /\ ~FEq(val.out.results.connectivity_score, FOne)
    /\ FLess(Frac(1, 2), val.out.results.connectivity_score)

(***************************************************************************)
(* _apply_filters.                                                         *)
(***************************************************************************)
FilterApplied == Len(flt) >= 2

\* the valid_until property of a node, NoTime when it has none
ValidUntilOf(n) ==
    IF "properties" \in DOMAIN n /\ "valid_until" \in DOMAIN n["properties"]
    THEN n["properties"]["valid_until"] ELSE NoTime

\* C19: applying the same filters to the result of _apply_filters gives
\* that result again.
C19_FilterIdempotent ==
    \A i \in DOMAIN flt : (i >= 2 /\ i + 1 \in DOMAIN flt) => flt[i + 1] = flt[i]

\* filters that removed some node and kept another, applied twice
C19_Witness ==
    /\ Len(flt) >= 3
    /\ flt[2] # <<>>
    /\ Len(flt[2]) < Len(flt[1])
    /\ DOMAIN ffilters = {"valid_until", "node_types", "sources", "min_score"}

\* C20: the result is the input list, in its order, without the nodes that
\* fail a filter present in the filters object: valid_until keeps a node
\* that has no valid_until or one strictly greater than the cutoff,
\* node_types keeps a node whose type is allowed, sources keeps a node
\* whose properties.source is allowed.
C20_FilterKeepsExactly ==
    FilterApplied =>
        LET Stays(n) ==
                /\ "valid_until" \in DOMAIN ffilters =>
                      \/ ValidUntilOf(n) = NoTime
                      \/ ValidUntilOf(n) > ffilters["valid_until"]
                /\ "node_types" \in DOMAIN ffilters =>
                      /\ "type" \in DOMAIN n
                      /\ n["type"] \in ffilters["node_types"]
                /\ "sources" \in DOMAIN ffilters =>
                      /\ "properties" \in DOMAIN n
                      /\ "source" \in DOMAIN n["properties"]
                      /\ n["properties"]["source"] \in ffilters["sources"]
        IN  flt[2] = SelectSeq(flt[1], Stays)

\* a node whose valid_until equals the cutoff was given and dropped, while
\* the node after it stayed
C20_Witness ==
    /\ FilterApplied
    /\ DOMAIN ffilters = {"valid_until"}
    /\ Len(flt[1]) = 2
    /\ ValidUntilOf(flt[1][1]) = ffilters["valid_until"]
    /\ flt[2] = <<flt[1][2]>>

(***************************************************************************)
(* Filters without a recognized key.                                       *)
(***************************************************************************)
RecognizedFilterKeys == {"valid_until", "node_types", "sources"}

OnlyUnrecognized(filters) == DOMAIN filters \cap RecognizedFilterKeys = {}

\* C21: with no filters, empty filters, or filters holding only keys other
\* than valid_until, node_types and sources, filtering returns what it was
\* given: the node list of _apply_filters, the graph of filter_subgraph.
C21_UnrecognizedKeysIdentity ==
    /\ (Len(flt) >= 2 /\ OnlyUnrecognized(ffilters)) => flt[2] = flt[1]
    /\ (sres.called /\ (~FiltersGiven(sfilters) \/ OnlyUnrecognized(sfilters)))
          => sres.out = fgraph

\* the part of C21 that concerns _apply_filters
ApplyFiltersIgnoresUnknownKeys ==
    (Len(flt) >= 2 /\ OnlyUnrecognized(ffilters)) => flt[2] = flt[1]

\* the part of C21 that concerns absent and empty filters of filter_subgraph
FilterSubgraphNoFiltersIdentity ==
    (sres.called /\ ~FiltersGiven(sfilters)) => sres.out = fgraph

\* _apply_filters was given nodes and none but an unknown key
ApplyFiltersUnknownKeyGiven ==
    /\ Len(flt) >= 2
    /\ DOMAIN ffilters = {"min_score"}
    /\ Len(flt[1]) = MaxFilterNodes

\* filter_subgraph was given nodes and no filters
FilterSubgraphNoFiltersGiven ==
    /\ sres.called
    /\ sfilters = EmptyMeta
    /\ DOMAIN fgraph.nodes # {}

(***************************************************************************)
(* get_applicable_subgraph.                                                *)
(***************************************************************************)
Queried == qres.status # "idle"

\* the store has a lookup that raises
StoreLookupFails == storeFault # NoFault

\* C22: when search_nodes raises during the seed search of a query, the
\* query call ends with that error.
C22_SearchFailureSurfaced ==
    (Queried /\ qres.search_failed # {}) => qres.status = "raised"

\* C23: a query that resolves to no seed node, no operation having failed,
\* returns the empty subgraph and no error; and a query ends with an error
\* only when one of its operations failed.
C23_NoSeedsIsEmptyNotError ==
    /\ (Queried /\ qres.seeds = <<>> /\ qres.search_failed = {})
          => /\ qres.status = "returned"
             /\ qres.nodes = <<>>
             /\ qres.edges = <<>>
    /\ (Queried /\ qres.status = "raised")
          => (qres.search_failed # {} \/ StoreLookupFails)

\* nodes were found and all filtered out, in a store holding edges
C23_Witness ==
    /\ qres.status = "returned"
    /\ qres.query = <<"a">>
    /\ qres.filters = [node_types |-> {}]
    /\ qres.seeds = <<>>
    /\ storeEdges # {}
    /\ storeFault # NoFault

\* a blank query returned the empty subgraph
C23_BlankQuery ==
    /\ qres.status = "returned"
    /\ qres.query = <<" ", " ">>
    /\ qres.nodes = <<>>

\* a query ended with the error of a store lookup
C23_QueryRaised ==
    /\ qres.status = "raised"
    /\ qres.seeds # <<>>

(***************************************************************************)
(* GraphService.query and the audit log.                                   *)
(***************************************************************************)
QueryReturned == svc.status = "returned"

LastStep == svc.steps[Len(svc.steps)]

\* C24: a failure while recording an audit event never fails the primary
\* operation: a query call that raised failed in the text-generation call,
\* never in a log_event step.
C24_AuditFailureNeverFails ==
    svc.status = "raised" => LastStep = "generate"

\* the query call raised in its first log_event and never filtered
C24_QueryFailedInAudit ==
    /\ svc.status = "raised"
    /\ svc.steps = <<"log_event:llm_query">>
    /\ llmCalls = <<>>

QuerySteps ==
    <<"log_event:llm_query", "filter_subgraph", "validate_subgraph",
      "log_event:reasoning_executed", "generate", "log_event:llm_response">>

QueryEventTypes == <<"llm_query", "reasoning_executed", "llm_response">>

\* the last n elements of a sequence
LastN(s, n) == SubSeq(s, Len(s) - n + 1, Len(s))

EventTypes(evs) == [i \in DOMAIN evs |-> evs[i].event_type]

\* the subgraph the returned call worked on
QuerySubgraph == FilterSubgraph(fgraph, svc.filters)

\* C30: a query call that returned logged llm_query, filtered, validated,
\* logged reasoning_executed, called the text-generation service once with
\* the filtered subgraph as context and logged llm_response, in this order;
\* the call is made for a valid and for an invalid subgraph, and the
\* validation result is returned with the answer.
C30_QueryStepsInOrder ==
    QueryReturned =>
        /\ svc.steps = QuerySteps
        /\ Len(events) >= Len(QueryEventTypes)
        /\ EventTypes(LastN(events, Len(QueryEventTypes))) = QueryEventTypes
        /\ \A i \in DOMAIN events :
              i > Len(events) - Len(QueryEventTypes)
                  => events[i].session_id = svc.session_id
        /\ LET trace == GetTrace(events, svc.session_id)
           IN  /\ Len(trace) >= Len(QueryEventTypes)
               /\ EventTypes(LastN(trace, Len(QueryEventTypes))) = QueryEventTypes
        /\ Len(llmCalls) = 1
        /\ llmCalls[1].context = SubgraphToContext(QuerySubgraph)
        /\ svc.result.validation = ValidateSubgraph(QuerySubgraph, <<>>).results
        /\ svc.result.is_valid = ValidateSubgraph(QuerySubgraph, <<>>).returned

\* a query over an invalid, filtered subgraph returned; the session had an
\* earlier event
C30_Witness ==
    /\ QueryReturned
    /\ ~svc.result.is_valid
    /\ svc.filters = [type |-> "document"]
    /\ DOMAIN QuerySubgraph.nodes # DOMAIN fgraph.nodes
    /\ Len(events) > Len(QueryEventTypes)
    /\ events[1].session_id = svc.session_id

\* a query over a valid subgraph returned
C30_ValidReturned ==
    /\ QueryReturned
    /\ svc.result.is_valid
    /\ Len(llmCalls) = 1

\* a query over the empty graph returned
C30_EmptyReturned ==
    /\ QueryReturned
    /\ DOMAIN fgraph.nodes = {}
    /\ Len(llmCalls) = 1

(***************************************************************************)
(* _expand_subgraph as a breadth-first traversal.                          *)
(***************************************************************************)
NodeSet(result) == Range(result.nodes)

\* the ids that entered a frontier: the seeds and the nodes get_node found
GetNodeEdgesCalls == SelectSeq(expResult.calls, LAMBDA c : c[1] = "get_node_edges")

Occurrences(s, x) == Cardinality({i \in DOMAIN s : s[i] = x})

\* the nodes joined to a node of S by at most d store edges, direction ignored
RECURSIVE WithinHops(_, _)
WithinHops(S, d) ==
    IF d = 0 THEN S
    ELSE WithinHops(S \cup {e[2] : e \in {x \in storeEdges : x[1] \in S}}
                      \cup {e[1] : e \in {x \in storeEdges : x[2] \in S}},
                    d - 1)

\* no lookup of the call raised and every get_node returned a node
LookupsSucceeded ==
    /\ ExpandReturned
    /\ \A i \in DOMAIN expResult.calls :
          expResult.calls[i][1] = "get_node"
              => GetNodeFound(expResult.calls[i][2])

\* C25: for fixed seeds and store, the nodes returned with a smaller
\* max_depth are among the nodes returned with a larger one.
C25_NodesMonotoneInDepth ==
    ExpandReturned =>
        \A d \in 0..MaxDepth :
            LET other == ExpandSubgraph(expSeeds, d)
            IN  other.status = "returned" =>
                    /\ d <= expDepth => NodeSet(other) \subseteq NodeSet(expResult)
                    /\ d >= expDepth => NodeSet(expResult) \subseteq NodeSet(other)

\* the deepest call returned strictly more nodes than each shallower one,
\* on a store with a cycle
C25_Witness ==
    /\ ExpandReturned
    /\ expDepth = MaxDepth
    /\ {<<1, 2>>, <<2, 1>>} \subseteq storeEdges
    /\ \A d \in 0..(MaxDepth - 1) :
          /\ ExpandSubgraph(expSeeds, d).status = "returned"
          /\ NodeSet(ExpandSubgraph(expSeeds, d)) # NodeSet(ExpandSubgraph(expSeeds, d + 1))

\* C26: expand completes on every store, cycles and self-loops included:
\* it runs at most max_depth levels, stops after the first level that adds
\* no node to the next frontier, and looks up the edges of at most the
\* seeds plus one frontier entry per node.
C26_ExpandTerminates ==
    ExpandCalled =>
        /\ expResult.status \in {"returned", "raised"}
        /\ expResult.levels <= expDepth
        /\ Len(GetNodeEdgesCalls) <= Len(expSeeds) + MaxNodes
        /\ (ExpandReturned /\ expResult.levels < expDepth) =>
              /\ expResult.levels >= 1
              /\ Len(expResult.nodes)
                    = Len(ExpandSubgraph(expSeeds, expResult.levels - 1).nodes)
        /\ ExpandReturned =>
              \A k \in 1..expResult.levels :
                  k < expResult.levels =>
                      Len(ExpandSubgraph(expSeeds, k).nodes)
                          > Len(ExpandSubgraph(expSeeds, k - 1).nodes)

\* a call stopped before max_depth on a store with a self-loop and a cycle
C26_Witness ==
    /\ ExpandReturned
    /\ expDepth = MaxDepth
    /\ expResult.levels < expDepth
    /\ expSeeds # <<>>
    /\ {<<1, 1>>, <<1, 2>>, <<2, 1>>} \subseteq storeEdges
    /\ 1 \in Range(expSeeds)

\* a call ran all its levels round the ring
C26_AllLevels ==
    /\ ExpandReturned
    /\ expDepth = MaxDepth
    /\ expResult.levels = MaxDepth
    /\ Len(expResult.nodes) = MaxNodes

\* C27: in one expand call every node id is returned at most once and no
\* store call is issued twice.
C27_NoStoreCallRepeated ==
    ExpandCalled =>
        /\ \A n \in NodeIds : Occurrences(expResult.nodes, n) <= 1
        /\ \A i, j \in DOMAIN expResult.calls :
              expResult.calls[i] = expResult.calls[j] => i = j

\* the same holds on seed lists without duplicate: the edges of a node are
\* looked up once
GetNodeEdgesOncePerNode ==
    (ExpandCalled /\ Len(expSeeds) = Cardinality(Range(expSeeds))) =>
        \A n \in NodeIds : Occurrences(GetNodeEdgesCalls, <<"get_node_edges", n>>) <= 1

\* a call over distinct seeds ran its levels without a failing lookup
GetNodeEdgesOncePerNodeGiven ==
    /\ LookupsSucceeded
    /\ Len(expSeeds) = MaxSeeds
    /\ Cardinality(Range(expSeeds)) = MaxSeeds
    /\ expResult.levels = MaxDepth

\* C28: a returned node is within max_depth undirected store edges of a
\* seed, and when every lookup succeeded each node that near is returned.
C28_BreadthFirstBound ==
    /\ ExpandReturned =>
          NodeSet(expResult) \subseteq WithinHops(Range(expSeeds), expDepth)
    /\ LookupsSucceeded =>
          WithinHops(Range(expSeeds), expDepth) \subseteq NodeSet(expResult)

\* a call returned while a stored node lay beyond max_depth, reached
\* against the direction of an edge
C28_Witness ==
    /\ LookupsSucceeded
    /\ expDepth = 1
    /\ expSeeds = <<2>>
    /\ storeEdges = {<<1, 2>>, <<MaxNodes, 1>>}
    /\ NodeSet(expResult) = {1, 2}

(***************************************************************************)
(* Frame of the src VersionManager.                                        *)
(***************************************************************************)
ReadOps == {"get_version", "list_versions", "get_temporal_validity"}

ReadStep == ret' # ret /\ ret'.op \in ReadOps

CompareStep == cmp' # cmp

CreateStep == ret' # ret /\ ret'.op = "create_version"

\* the histories after a create_version(g): one more version for g, the
\* versions it had kept in place, every other history as it was
OneAppended(g) ==
    /\ DOMAIN versions' = DOMAIN versions \cup {g}
    /\ Len(versions'[g]) = Len(ListVersions(g)) + 1
    /\ IsPrefix(ListVersions(g), versions'[g])
    /\ \A h \in DOMAIN versions' \ {g} :
          h \in DOMAIN versions /\ versions'[h] = versions[h]

\* C29: get_version, list_versions, get_temporal_validity and
\* compare_versions leave every history as it was and add no graph id;
\* create_version(g) adds exactly one version to the history of g and
\* leaves every other history as it was.
C29_VersionStoreFrame ==
    [][/\ (ReadStep \/ CompareStep) => versions' = versions
       /\ CreateStep => OneAppended(ret'.graph_id)
       /\ versions' # versions => CreateStep]_vars

\* reads of a graph id without history and a comparison were answered
\* while another graph held two versions
C29_Witness ==
    /\ DOMAIN versions = {"g1"}
    /\ Len(versions["g1"]) = 2
    /\ ret.op \in ReadOps
    /\ ret.graph_id = "g2"
    /\ cmp.op = "compare_versions"

\* both graphs hold a history
C29_TwoHistories ==
    /\ DOMAIN versions = GraphIds
    /\ ret.op = "create_version"

====
